---- MODULE Spec2Model ----
(***************************************************************************)
(* A model of boss.py: a ZeroMQ based multi-threaded task distributor.     *)
(*                                                                         *)
(* Threads: the main caller (start, stop), client callers (assign_task,    *)
(* have_all_tasks_done, tasks), one _SinkerThread and num_workers          *)
(* _WorkerThread.                                                          *)
(*                                                                         *)
(* ZeroMQ semantics the model relies on (libzmq >= 4, pyzmq on Python 2,   *)
(* where the str 'STOP' is a byte string):                                 *)
(*  - inproc connect before bind is allowed, the pipes exist once the      *)
(*    endpoint is bound; a socket stays open after its thread has ended;   *)
(*  - PUSH distributes round-robin over its pipes at send time, each       *)
(*    message goes into the pipe of exactly one PULL peer; send blocks     *)
(*    while the socket has no pipe;                                        *)
(*  - REQ/REP is a lock-step request/reply, the reply is routed to the     *)
(*    requester; REP takes requests of its peers in arrival order;         *)
(*  - poll() returns the set of readable sockets;                          *)
(*  - send_json/recv_json carry a task as JSON text: numbers and strings   *)
(*    come back as they were, a tuple comes back as a list.                *)
(***************************************************************************)
EXTENDS Integers, Sequences, FiniteSets, TLC

\* ------------------------------------------------------------------ bounds
MaxWorkers == 2
MaxTaskId == 2
NumCallers == 2
CountCap == 2

\* ------------------------------------------------------------- vocabulary
TaskIds == 1..MaxTaskId
Commands == {"a", "b"}
\* the thread of the caller, as in main()
Clients == {1}
\* Task.status: the constructor's default, set_done, set_failed, and the
\* reserved value that stops a worker
START == "START"
DONE == "DONE"
FAILED == "FAILED"
STOP == "STOP"
SubmitStatuses == {START, DONE, FAILED}
\* every value a status field can hold
Statuses == {START, DONE, FAILED, STOP}

\* an id that is a tuple: a key of the registry like a number, but send_json
\* writes a tuple as a JSON array and recv_json reads an array as a list,
\* which cannot be a key; the list that the tuple i becomes is 0 - i
TupleIds == {MaxTaskId + 1}
Keys == TaskIds \cup TupleIds
MsgIds == Keys \cup {0 - i : i \in TupleIds}
json_id(i) == IF i \in TupleIds THEN 0 - i ELSE i
hashable(i) == i > 0

Task(task_id, command, status) ==
    [id |-> task_id, command |-> command, status |-> status]
NoTask == Task(0, "", "")
set_done(task) == [task EXCEPT !.status = DONE]
is_done(task) == DONE = task.status
\* the task that recv_json gives for the task that send_json was given
json(task) == [task EXCEPT !.id = json_id(@)]

\* lock owners: thread identities
Free == -1
SinkerTid == 0

Inc(n) == IF n < CountCap THEN n + 1 ELSE CountCap

Perms(n) ==
    {p \in [1..n -> 1..n] : \A i, j \in 1..n : p[i] = p[j] => i = j}

VARIABLES
    \* main caller
    mainPc,            \* "init", "sync", "bind", "started", "stopSig", "stopJoin"
    num_workers,       \* start's argument
    num_active_workers,\* _sync_workers' counter
    stopIdx,           \* stop's position in _WORKING_THREADS
    startReturned,     \* start() has returned
    stopReturned,      \* some stop() has returned
    \* module globals
    WORKING_THREADS,   \* sequence of unit ids: 0 the sinker, w >= 1 a worker
    TASK_OUT_SOCKET,   \* "none", "unbound", "bound"
    TASKS,             \* key -> Task, NoTask where the key is absent
    GLOBAL_TASK_LOCK,  \* Free or the owner
    pipeOrder,         \* the PUSH socket's pipes, in round-robin order
    rr,                \* index of the pipe the next message goes to
    \* client callers
    cpc,               \* "idle", "err", "lock", "crit", "dup", "send", "hcrit", "hret", "tasks"
    ctask,
    all_TASKS_done,    \* have_all_tasks_done's local, True outside the call
    \* workers
    wpc,               \* "absent", "created", "awaiting", "poll", "work", "waitack", "stopped"
    wtask,
    task_in,           \* per worker: the queue of its PULL socket
    wcommand,          \* per worker: command_in is readable
    worker_ack,        \* per worker REQ on WORKER_ACK: "none", "req", "rep", "done"
    result_out,        \* per worker REQ on WORKER_RESULT: "none", "req", "taken", "rep"
    \* sinker
    spc,               \* "absent", "created", "poll", "lock", "crit", "ack", "stopped"
    stask,
    sfrom,
    scommand,
    \* observation of the run
    sent,              \* per id: messages put on the distribution channel
    accepted,          \* per id: the command of the accepted submission, "" if none
    invoked,           \* per id: handler invocations
    outcome,           \* per id: "none", "true", "false", "raised": how the handler ended
    writes,            \* per id: registry writes by the sinker
    unacked            \* per worker: ids received whose result is not acknowledged

mainVars == <<mainPc, num_workers, num_active_workers, stopIdx, startReturned, stopReturned>>
globVars == <<WORKING_THREADS, TASK_OUT_SOCKET, TASKS, GLOBAL_TASK_LOCK, pipeOrder, rr>>
clientVars == <<cpc, ctask, all_TASKS_done>>
workerVars == <<wpc, wtask, task_in, wcommand, worker_ack, result_out>>
sinkerVars == <<spc, stask, sfrom, scommand>>
obsVars == <<sent, accepted, invoked, outcome, writes, unacked>>
vars == <<mainVars, globVars, clientVars, workerVars, sinkerVars, obsVars>>

AllWorkers == 1..MaxWorkers
Workers == 1..num_workers

InitWith(callers) ==
    /\ mainPc = "init"
    /\ num_workers = 0
    /\ num_active_workers = 0
    /\ stopIdx = 0
    /\ startReturned = FALSE
    /\ stopReturned = FALSE
    /\ WORKING_THREADS = <<>>
    /\ TASK_OUT_SOCKET = "none"
    /\ TASKS = [i \in Keys |-> NoTask]
    /\ GLOBAL_TASK_LOCK = Free
    /\ pipeOrder = <<>>
    /\ rr = 1
    /\ cpc = [c \in callers |-> "idle"]
    /\ ctask = [c \in callers |-> NoTask]
    /\ all_TASKS_done = [c \in callers |-> TRUE]
    /\ wpc = [w \in AllWorkers |-> "absent"]
    /\ wtask = [w \in AllWorkers |-> NoTask]
    /\ task_in = [w \in AllWorkers |-> <<>>]
    /\ wcommand = [w \in AllWorkers |-> FALSE]
    /\ worker_ack = [w \in AllWorkers |-> "none"]
    /\ result_out = [w \in AllWorkers |-> "none"]
    /\ spc = "absent"
    /\ stask = NoTask
    /\ sfrom = 0
    /\ scommand = FALSE
    /\ sent = [i \in MsgIds |-> 0]
    /\ accepted = [i \in MsgIds |-> ""]
    /\ invoked = [i \in MsgIds |-> 0]
    /\ outcome = [i \in MsgIds |-> "none"]
    /\ writes = [i \in MsgIds |-> 0]
    /\ unacked = [w \in AllWorkers |-> {}]

Init == InitWith(Clients)

\* The public operations are called from the caller's own context: start and
\* stop are not called while an assign_task or a have_all_tasks_done is under
\* way, nor these while start or stop is.
MainIdle == mainPc \in {"init", "started"}
CallersIdle == \A c \in DOMAIN cpc : cpc[c] = "idle"

\* ------------------------------------------------------------ main caller
\* start(), lines 225-241: bind ack_in, create and start the sinker, then the
\* workers, each appended to _WORKING_THREADS in creation order
Start(n) ==
    /\ mainPc = "init"
    /\ CallersIdle
    /\ mainPc' = "sync"
    /\ num_workers' = n
    /\ WORKING_THREADS' = <<SinkerTid>> \o [i \in 1..n |-> i]
    /\ spc' = "created"
    /\ wpc' = [w \in AllWorkers |-> IF w <= n THEN "created" ELSE "absent"]
    /\ UNCHANGED <<num_active_workers, stopIdx, startReturned, stopReturned>>
    /\ UNCHANGED <<TASK_OUT_SOCKET, TASKS, GLOBAL_TASK_LOCK, pipeOrder, rr>>
    /\ UNCHANGED <<wtask, task_in, wcommand, worker_ack, result_out>>
    /\ UNCHANGED <<stask, sfrom, scommand>>
    /\ UNCHANGED <<clientVars, obsVars>>

\* a _sync_workers that counts a worker twice
SyncWorkersMiscount(w) ==
    /\ mainPc = "sync"
    /\ num_active_workers < num_workers
    /\ w \in Workers
    /\ worker_ack[w] = "req"
    /\ worker_ack' = [worker_ack EXCEPT ![w] = "rep"]
    /\ num_active_workers' = num_active_workers + 2
    /\ UNCHANGED <<mainPc, num_workers, stopIdx, startReturned, stopReturned>>
    /\ UNCHANGED <<wpc, wtask, task_in, wcommand, result_out>>
    /\ UNCHANGED <<globVars, clientVars, sinkerVars, obsVars>>

\* _sync_workers, one iteration of the loop: ack_in.recv() takes the readiness
\* signal of worker w, ack_in.send(b'') replies to it, the counter goes up
SyncWorkers(w) ==
    /\ mainPc = "sync"
    /\ num_active_workers < num_workers
    /\ w \in Workers
    /\ worker_ack[w] = "req"
    /\ worker_ack' = [worker_ack EXCEPT ![w] = "rep"]
    /\ num_active_workers' = num_active_workers + 1
    /\ UNCHANGED <<mainPc, num_workers, stopIdx, startReturned, stopReturned>>
    /\ UNCHANGED <<wpc, wtask, task_in, wcommand, result_out>>
    /\ UNCHANGED <<globVars, clientVars, sinkerVars, obsVars>>

\* a start() that creates the PUSH socket before the barrier
CreateTaskOutEarly ==
    /\ mainPc = "sync"
    /\ TASK_OUT_SOCKET' = "unbound"
    /\ mainPc' = "bind"
    /\ UNCHANGED <<num_workers, num_active_workers, stopIdx, startReturned, stopReturned>>
    /\ UNCHANGED <<WORKING_THREADS, TASKS, GLOBAL_TASK_LOCK, pipeOrder, rr>>
    /\ UNCHANGED <<clientVars, workerVars, sinkerVars, obsVars>>

\* start(), line 249: _sync_workers has returned, the PUSH socket is created
\* and stored in the global
CreateTaskOut ==
    /\ mainPc = "sync"
    /\ ~(num_active_workers < num_workers)
    /\ TASK_OUT_SOCKET' = "unbound"
    /\ mainPc' = "bind"
    /\ UNCHANGED <<num_workers, num_active_workers, stopIdx, startReturned, stopReturned>>
    /\ UNCHANGED <<WORKING_THREADS, TASKS, GLOBAL_TASK_LOCK, pipeOrder, rr>>
    /\ UNCHANGED <<clientVars, workerVars, sinkerVars, obsVars>>

\* start(), line 250: bind; the workers' task_in sockets, connected earlier,
\* become the pipes of the PUSH socket, in an order the program does not fix
BindTaskOut ==
    /\ mainPc = "bind"
    /\ TASK_OUT_SOCKET' = "bound"
    /\ pipeOrder' \in Perms(num_workers)
    /\ rr' = 1
    /\ mainPc' = "started"
    /\ startReturned' = TRUE
    /\ UNCHANGED <<num_workers, num_active_workers, stopIdx, stopReturned>>
    /\ UNCHANGED <<WORKING_THREADS, TASKS, GLOBAL_TASK_LOCK>>
    /\ UNCHANGED <<clientVars, workerVars, sinkerVars, obsVars>>

\* start(), lines 251-253: a ZeroMQ call of the try block raises (in
\* _sync_workers, at the socket's creation or at its bind); the handler logs
\* the error and calls stop()
StartError ==
    /\ mainPc \in {"sync", "bind"}
    /\ mainPc' = "stopSig"
    /\ stopIdx' = 1
    /\ UNCHANGED <<num_workers, num_active_workers, startReturned, stopReturned>>
    /\ UNCHANGED <<globVars, clientVars, workerVars, sinkerVars, obsVars>>

\* stop() is called on the started pool
Stop ==
    /\ mainPc = "started"
    /\ CallersIdle
    /\ mainPc' = "stopSig"
    /\ stopIdx' = 1
    /\ UNCHANGED <<num_workers, num_active_workers, startReturned, stopReturned>>
    /\ UNCHANGED <<globVars, clientVars, workerVars, sinkerVars, obsVars>>

\* a stop() that signals every unit before it joins the first
StopSignalAll ==
    /\ mainPc = "stopSig"
    /\ scommand' = TRUE
    /\ wcommand' = [w \in AllWorkers |-> wcommand[w] \/ w \in Workers]
    /\ mainPc' = "stopJoin"
    /\ UNCHANGED <<num_workers, num_active_workers, stopIdx, startReturned, stopReturned>>
    /\ UNCHANGED <<wpc, wtask, task_in, worker_ack, result_out>>
    /\ UNCHANGED <<spc, stask, sfrom>>
    /\ UNCHANGED <<globVars, clientVars, obsVars>>

\* stop(), line 262: t.stop() sends 'STOP' on the unit's command socket
StopSignal ==
    /\ mainPc = "stopSig"
    /\ LET t == WORKING_THREADS[stopIdx] IN
        /\ scommand' = IF t = SinkerTid THEN TRUE ELSE scommand
        /\ wcommand' = IF t = SinkerTid THEN wcommand
                       ELSE [wcommand EXCEPT ![t] = TRUE]
    /\ mainPc' = "stopJoin"
    /\ UNCHANGED <<num_workers, num_active_workers, stopIdx, startReturned, stopReturned>>
    /\ UNCHANGED <<wpc, wtask, task_in, worker_ack, result_out>>
    /\ UNCHANGED <<spc, stask, sfrom>>
    /\ UNCHANGED <<globVars, clientVars, obsVars>>

Terminated(t) ==
    IF t = SinkerTid THEN spc = "stopped" ELSE wpc[t] = "stopped"

\* a stop() that does not join the unit
StopJoinNoWait ==
    /\ mainPc = "stopJoin"
    /\ IF stopIdx < Len(WORKING_THREADS)
       THEN /\ stopIdx' = stopIdx + 1
            /\ mainPc' = "stopSig"
            /\ UNCHANGED <<startReturned, stopReturned>>
       ELSE /\ stopIdx' = 0
            /\ mainPc' = "started"
            /\ startReturned' = TRUE
            /\ stopReturned' = TRUE
    /\ UNCHANGED <<num_workers, num_active_workers>>
    /\ UNCHANGED <<globVars, clientVars, workerVars, sinkerVars, obsVars>>

\* stop(), line 263: t.join() returns once the unit's thread has ended; after
\* the last unit stop() returns, and so does start() when it called stop()
StopJoin ==
    /\ mainPc = "stopJoin"
    /\ Terminated(WORKING_THREADS[stopIdx])
    /\ IF stopIdx < Len(WORKING_THREADS)
       THEN /\ stopIdx' = stopIdx + 1
            /\ mainPc' = "stopSig"
            /\ UNCHANGED <<startReturned, stopReturned>>
       ELSE /\ stopIdx' = 0
            /\ mainPc' = "started"
            /\ startReturned' = TRUE
            /\ stopReturned' = TRUE
    /\ UNCHANGED <<num_workers, num_active_workers>>
    /\ UNCHANGED <<globVars, clientVars, workerVars, sinkerVars, obsVars>>

\* ---------------------------------------------------------- client callers
\* an assign_task that does not look at _TASK_OUT_SOCKET
AssignCheckNone(c, task) ==
    /\ cpc[c] = "idle"
    /\ cpc' = [cpc EXCEPT ![c] = "lock"]
    /\ ctask' = [ctask EXCEPT ![c] = task]
    /\ UNCHANGED <<all_TASKS_done, mainVars, globVars, workerVars, sinkerVars, obsVars>>

\* assign_task(task), lines 273-275: without a socket the call logs an error
\* and returns; otherwise it goes on to acquire the lock
AssignCheck(c, task) ==
    /\ cpc[c] = "idle"
    /\ ctask' = [ctask EXCEPT ![c] = task]
    /\ IF TASK_OUT_SOCKET = "none"
       THEN cpc' = [cpc EXCEPT ![c] = "err"]
       ELSE cpc' = [cpc EXCEPT ![c] = "lock"]
    /\ UNCHANGED <<all_TASKS_done, mainVars, globVars, workerVars, sinkerVars, obsVars>>

\* assign_task called from the context that calls start and stop
AssignTask(c, task) ==
    /\ MainIdle
    /\ AssignCheck(c, task)

\* assign_task, line 277: _GLOBAL_TASK_LOCK.acquire()
AssignAcquire(c) ==
    /\ cpc[c] = "lock"
    /\ GLOBAL_TASK_LOCK = Free
    /\ GLOBAL_TASK_LOCK' = c
    /\ cpc' = [cpc EXCEPT ![c] = "crit"]
    /\ UNCHANGED <<WORKING_THREADS, TASK_OUT_SOCKET, TASKS, pipeOrder, rr>>
    /\ UNCHANGED <<ctask, all_TASKS_done, mainVars, workerVars, sinkerVars, obsVars>>

\* an assign_task that does not look the id up
AssignInsertAlways(c) ==
    /\ cpc[c] = "crit"
    /\ TASKS' = [TASKS EXCEPT ![ctask[c].id] = ctask[c]]
    /\ accepted' = [accepted EXCEPT ![ctask[c].id] = ctask[c].command]
    /\ cpc' = [cpc EXCEPT ![c] = "send"]
    /\ GLOBAL_TASK_LOCK' = Free
    /\ UNCHANGED <<WORKING_THREADS, TASK_OUT_SOCKET, pipeOrder, rr>>
    /\ UNCHANGED <<sent, invoked, outcome, writes, unacked>>
    /\ UNCHANGED <<ctask, all_TASKS_done, mainVars, workerVars, sinkerVars>>

\* assign_task, lines 278-283: a known id is logged and dropped; a new one is
\* stored in _TASKS, the caller's object as it is; the lock is released
AssignInsert(c) ==
    /\ cpc[c] = "crit"
    /\ LET task == ctask[c] IN
        IF TASKS[task.id] # NoTask
        THEN /\ cpc' = [cpc EXCEPT ![c] = "dup"]
             /\ ctask' = [ctask EXCEPT ![c] = NoTask]
             /\ UNCHANGED <<TASKS, accepted>>
        ELSE /\ TASKS' = [TASKS EXCEPT ![task.id] = task]
             /\ accepted' = [accepted EXCEPT ![task.id] = task.command]
             /\ cpc' = [cpc EXCEPT ![c] = "send"]
             /\ UNCHANGED ctask
    /\ GLOBAL_TASK_LOCK' = Free
    /\ UNCHANGED <<WORKING_THREADS, TASK_OUT_SOCKET, pipeOrder, rr>>
    /\ UNCHANGED <<sent, invoked, outcome, writes, unacked>>
    /\ UNCHANGED <<all_TASKS_done, mainVars, workerVars, sinkerVars>>

\* a distribution socket that copies the message to every worker
AssignSendAll(c) ==
    /\ cpc[c] = "send"
    /\ TASK_OUT_SOCKET = "bound"
    /\ Len(pipeOrder) > 0
    /\ task_in' = [w \in AllWorkers |->
                     IF w \in Workers THEN Append(task_in[w], json(ctask[c])) ELSE task_in[w]]
    /\ rr' = (rr % Len(pipeOrder)) + 1
    /\ sent' = [sent EXCEPT ![ctask[c].id] = Inc(@)]
    /\ cpc' = [cpc EXCEPT ![c] = "idle"]
    /\ ctask' = [ctask EXCEPT ![c] = NoTask]
    /\ UNCHANGED <<WORKING_THREADS, TASK_OUT_SOCKET, TASKS, GLOBAL_TASK_LOCK, pipeOrder>>
    /\ UNCHANGED <<wpc, wtask, wcommand, worker_ack, result_out>>
    /\ UNCHANGED <<accepted, invoked, outcome, writes, unacked>>
    /\ UNCHANGED <<all_TASKS_done, mainVars, sinkerVars>>

\* assign_task, line 285: _TASK_OUT_SOCKET.send_json(task.__dict__); the PUSH
\* socket blocks while it has no pipe, and else queues the message, as JSON,
\* on the next pipe of its round
AssignSend(c) ==
    /\ cpc[c] = "send"
    /\ TASK_OUT_SOCKET = "bound"
    /\ Len(pipeOrder) > 0
    /\ LET w == pipeOrder[rr] IN
        task_in' = [task_in EXCEPT ![w] = Append(@, json(ctask[c]))]
    /\ rr' = (rr % Len(pipeOrder)) + 1
    /\ sent' = [sent EXCEPT ![ctask[c].id] = Inc(@)]
    /\ cpc' = [cpc EXCEPT ![c] = "idle"]
    /\ ctask' = [ctask EXCEPT ![c] = NoTask]
    /\ UNCHANGED <<WORKING_THREADS, TASK_OUT_SOCKET, TASKS, GLOBAL_TASK_LOCK, pipeOrder>>
    /\ UNCHANGED <<wpc, wtask, wcommand, worker_ack, result_out>>
    /\ UNCHANGED <<accepted, invoked, outcome, writes, unacked>>
    /\ UNCHANGED <<all_TASKS_done, mainVars, sinkerVars>>

\* assign_task returns after the error message (line 275) or after the
\* message about a known id (lines 279-280)
AssignReturn(c) ==
    /\ cpc[c] \in {"err", "dup"}
    /\ cpc' = [cpc EXCEPT ![c] = "idle"]
    /\ ctask' = [ctask EXCEPT ![c] = NoTask]
    /\ UNCHANGED <<all_TASKS_done, mainVars, globVars, workerVars, sinkerVars, obsVars>>

\* have_all_tasks_done(), lines 293-299, on the dictionary d
have_all_tasks_done(d) ==
    \A k \in Keys : d[k] # NoTask => is_done(d[k])

\* have_all_tasks_done(), line 292: _GLOBAL_TASK_LOCK.acquire()
HaveAcquire(c) ==
    /\ cpc[c] = "idle"
    /\ MainIdle
    /\ GLOBAL_TASK_LOCK = Free
    /\ GLOBAL_TASK_LOCK' = c
    /\ cpc' = [cpc EXCEPT ![c] = "hcrit"]
    /\ UNCHANGED <<WORKING_THREADS, TASK_OUT_SOCKET, TASKS, pipeOrder, rr>>
    /\ UNCHANGED <<ctask, all_TASKS_done, mainVars, workerVars, sinkerVars, obsVars>>

\* a scan that takes a failed task for a done one
HaveScanFailed(c) ==
    /\ cpc[c] = "hcrit"
    /\ all_TASKS_done' = [all_TASKS_done EXCEPT ![c] =
            \A k \in Keys : TASKS[k] # NoTask => TASKS[k].status \in {DONE, FAILED}]
    /\ GLOBAL_TASK_LOCK' = Free
    /\ cpc' = [cpc EXCEPT ![c] = "hret"]
    /\ UNCHANGED <<WORKING_THREADS, TASK_OUT_SOCKET, TASKS, pipeOrder, rr>>
    /\ UNCHANGED <<ctask, mainVars, workerVars, sinkerVars, obsVars>>

\* have_all_tasks_done(), lines 293-298: the scan of _TASKS, then the release
HaveScan(c) ==
    /\ cpc[c] = "hcrit"
    /\ all_TASKS_done' = [all_TASKS_done EXCEPT ![c] = have_all_tasks_done(TASKS)]
    /\ GLOBAL_TASK_LOCK' = Free
    /\ cpc' = [cpc EXCEPT ![c] = "hret"]
    /\ UNCHANGED <<WORKING_THREADS, TASK_OUT_SOCKET, TASKS, pipeOrder, rr>>
    /\ UNCHANGED <<ctask, mainVars, workerVars, sinkerVars, obsVars>>

\* have_all_tasks_done(), line 299: return all_TASKS_done
HaveReturn(c) ==
    /\ cpc[c] = "hret"
    /\ cpc' = [cpc EXCEPT ![c] = "idle"]
    /\ all_TASKS_done' = [all_TASKS_done EXCEPT ![c] = TRUE]
    /\ UNCHANGED <<ctask, mainVars, globVars, workerVars, sinkerVars, obsVars>>

\* tasks(), line 303: the caller gets _TASKS itself, with no acquire, and
\* reads it
TasksRead(c) ==
    /\ cpc[c] = "idle"
    /\ MainIdle
    /\ cpc' = [cpc EXCEPT ![c] = "tasks"]
    /\ UNCHANGED <<ctask, all_TASKS_done>>
    /\ UNCHANGED <<mainVars, globVars, workerVars, sinkerVars, obsVars>>

\* the caller has read the dictionary
TasksReturn(c) ==
    /\ cpc[c] = "tasks"
    /\ cpc' = [cpc EXCEPT ![c] = "idle"]
    /\ UNCHANGED <<ctask, all_TASKS_done>>
    /\ UNCHANGED <<mainVars, globVars, workerVars, sinkerVars, obsVars>>

\* ---------------------------------------------------------------- workers
\* _WorkerThread.run, lines 111-116: connect the sockets, send the readiness
\* signal on worker_ack_out
WorkerReady(w) ==
    /\ wpc[w] = "created"
    /\ worker_ack' = [worker_ack EXCEPT ![w] = "req"]
    /\ wpc' = [wpc EXCEPT ![w] = "awaiting"]
    /\ UNCHANGED <<wtask, task_in, wcommand, result_out>>
    /\ UNCHANGED <<mainVars, globVars, clientVars, sinkerVars, obsVars>>

\* _WorkerThread.run, line 118: worker_ack_out.recv() returns with the reply
WorkerRelease(w) ==
    /\ wpc[w] = "awaiting"
    /\ worker_ack[w] = "rep"
    /\ worker_ack' = [worker_ack EXCEPT ![w] = "done"]
    /\ wpc' = [wpc EXCEPT ![w] = "poll"]
    /\ UNCHANGED <<wtask, task_in, wcommand, result_out>>
    /\ UNCHANGED <<mainVars, globVars, clientVars, sinkerVars, obsVars>>

\* _WorkerThread.run, lines 124-127: the poll shows command_in readable
WorkerStop(w) ==
    /\ wpc[w] = "poll"
    /\ wcommand[w]
    /\ wpc' = [wpc EXCEPT ![w] = "stopped"]
    /\ UNCHANGED <<wtask, task_in, wcommand, worker_ack, result_out>>
    /\ UNCHANGED <<mainVars, globVars, clientVars, sinkerVars, obsVars>>

\* a worker that takes a message of status 'STOP' for a task
WorkerRecvNoSentinel(w) ==
    /\ wpc[w] = "poll"
    /\ ~wcommand[w]
    /\ task_in[w] # <<>>
    /\ LET task_msg == Head(task_in[w]) IN
        /\ wtask' = [wtask EXCEPT ![w] = Task(task_msg.id, task_msg.command, START)]
        /\ wpc' = [wpc EXCEPT ![w] = "work"]
        /\ invoked' = [invoked EXCEPT ![task_msg.id] = Inc(@)]
        /\ unacked' = [unacked EXCEPT ![w] = @ \cup {task_msg.id}]
    /\ task_in' = [task_in EXCEPT ![w] = Tail(@)]
    /\ UNCHANGED <<wcommand, worker_ack, result_out>>
    /\ UNCHANGED <<sent, accepted, outcome, writes>>
    /\ UNCHANGED <<mainVars, globVars, clientVars, sinkerVars>>

\* _WorkerThread.run, lines 129-138: the poll shows task_in readable only;
\* the message is taken off the socket; a 'STOP' status ends the thread; else
\* a Task with the default status is built from the id and the command and
\* the handler is called with it
WorkerRecv(w) ==
    /\ wpc[w] = "poll"
    /\ ~wcommand[w]
    /\ task_in[w] # <<>>
    /\ LET task_msg == Head(task_in[w]) IN
        IF STOP = task_msg.status
        THEN /\ wpc' = [wpc EXCEPT ![w] = "stopped"]
             /\ UNCHANGED <<wtask, invoked, unacked>>
        ELSE /\ wtask' = [wtask EXCEPT ![w] = Task(task_msg.id, task_msg.command, START)]
             /\ wpc' = [wpc EXCEPT ![w] = "work"]
             /\ invoked' = [invoked EXCEPT ![task_msg.id] = Inc(@)]
             /\ unacked' = [unacked EXCEPT ![w] = @ \cup {task_msg.id}]
    /\ task_in' = [task_in EXCEPT ![w] = Tail(@)]
    /\ UNCHANGED <<wcommand, worker_ack, result_out>>
    /\ UNCHANGED <<sent, accepted, outcome, writes>>
    /\ UNCHANGED <<mainVars, globVars, clientVars, sinkerVars>>

\* a worker that does not wait for the acknowledgement of its result
WorkerResultNoWait(w, ret) ==
    /\ wpc[w] = "work"
    /\ wtask' = [wtask EXCEPT ![w] = IF ret THEN set_done(@) ELSE @]
    /\ outcome' = [outcome EXCEPT ![wtask[w].id] = IF ret THEN "true" ELSE "false"]
    /\ result_out' = [result_out EXCEPT ![w] = "req"]
    /\ wpc' = [wpc EXCEPT ![w] = "poll"]
    /\ UNCHANGED <<task_in, wcommand, worker_ack>>
    /\ UNCHANGED <<sent, accepted, invoked, writes, unacked>>
    /\ UNCHANGED <<mainVars, globVars, clientVars, sinkerVars>>

\* _WorkerThread.run, lines 138-141: the handler returns ret; on True the
\* task is set done; the task is sent on result_out
WorkerResult(w, ret) ==
    /\ wpc[w] = "work"
    /\ wtask' = [wtask EXCEPT ![w] = IF ret THEN set_done(@) ELSE @]
    /\ outcome' = [outcome EXCEPT ![wtask[w].id] = IF ret THEN "true" ELSE "false"]
    /\ result_out' = [result_out EXCEPT ![w] = "req"]
    /\ wpc' = [wpc EXCEPT ![w] = "waitack"]
    /\ UNCHANGED <<task_in, wcommand, worker_ack>>
    /\ UNCHANGED <<sent, accepted, invoked, writes, unacked>>
    /\ UNCHANGED <<mainVars, globVars, clientVars, sinkerVars>>

\* _WorkerThread.run, lines 138 and 145-146: the handler raises; the exception
\* leaves the loop, and the thread ends at the except clause, or in it when
\* the exception has no strerror attribute; nothing is sent, no socket closed
WorkerRaise(w) ==
    /\ wpc[w] = "work"
    /\ outcome' = [outcome EXCEPT ![wtask[w].id] = "raised"]
    /\ wpc' = [wpc EXCEPT ![w] = "stopped"]
    /\ UNCHANGED <<wtask, task_in, wcommand, worker_ack, result_out>>
    /\ UNCHANGED <<sent, accepted, invoked, writes, unacked>>
    /\ UNCHANGED <<mainVars, globVars, clientVars, sinkerVars>>

\* _WorkerThread.run, line 144: result_out.recv() returns with the sinker's
\* acknowledgement; back to the top of the loop
WorkerAck(w) ==
    /\ wpc[w] = "waitack"
    /\ result_out[w] = "rep"
    /\ result_out' = [result_out EXCEPT ![w] = "none"]
    /\ unacked' = [unacked EXCEPT ![w] = @ \ {wtask[w].id}]
    /\ wtask' = [wtask EXCEPT ![w] = NoTask]
    /\ wpc' = [wpc EXCEPT ![w] = "poll"]
    /\ UNCHANGED <<task_in, wcommand, worker_ack>>
    /\ UNCHANGED <<sent, accepted, invoked, outcome, writes>>
    /\ UNCHANGED <<mainVars, globVars, clientVars, sinkerVars>>

\* ----------------------------------------------------------------- sinker
\* _SinkerThread.run, line 181: bind result_in
SinkerBind ==
    /\ spc = "created"
    /\ spc' = "poll"
    /\ UNCHANGED <<stask, sfrom, scommand>>
    /\ UNCHANGED <<mainVars, globVars, clientVars, workerVars, obsVars>>

\* _SinkerThread.run, lines 184-187: the poll shows command_in readable
SinkerStop ==
    /\ spc = "poll"
    /\ scommand
    /\ spc' = "stopped"
    /\ UNCHANGED <<stask, sfrom, scommand>>
    /\ UNCHANGED <<mainVars, globVars, clientVars, workerVars, obsVars>>

\* _SinkerThread.run, lines 189-193: the poll shows result_in readable only;
\* the request of worker w is received and a Task is built from it, status
\* included
SinkerRecv(w) ==
    /\ spc = "poll"
    /\ ~scommand
    /\ w \in Workers
    /\ result_out[w] = "req"
    /\ result_out' = [result_out EXCEPT ![w] = "taken"]
    /\ LET task_msg == json(wtask[w]) IN
        stask' = Task(task_msg.id, task_msg.command, task_msg.status)
    /\ sfrom' = w
    /\ spc' = "lock"
    /\ UNCHANGED <<scommand, wpc, wtask, task_in, wcommand, worker_ack>>
    /\ UNCHANGED <<mainVars, globVars, clientVars, obsVars>>

\* _SinkerThread.run, line 194: _GLOBAL_TASK_LOCK.acquire()
SinkerAcquire ==
    /\ spc = "lock"
    /\ GLOBAL_TASK_LOCK = Free
    /\ GLOBAL_TASK_LOCK' = SinkerTid
    /\ spc' = "crit"
    /\ UNCHANGED <<WORKING_THREADS, TASK_OUT_SOCKET, TASKS, pipeOrder, rr>>
    /\ UNCHANGED <<stask, sfrom, scommand>>
    /\ UNCHANGED <<mainVars, clientVars, workerVars, obsVars>>

\* _SinkerThread.run, lines 195 and 199-200: the id is a list, the store
\* raises TypeError; the thread ends at the except clause (or in it, at
\* e.strerror) and the release of line 196 is not reached
SinkerRaise ==
    /\ spc = "crit"
    /\ ~hashable(stask.id)
    /\ spc' = "stopped"
    /\ UNCHANGED <<stask, sfrom, scommand>>
    /\ UNCHANGED <<mainVars, globVars, clientVars, workerVars, obsVars>>

\* a sinker that releases the lock without the write
SinkerWriteSkip ==
    /\ spc = "crit"
    /\ GLOBAL_TASK_LOCK' = Free
    /\ spc' = "ack"
    /\ UNCHANGED <<WORKING_THREADS, TASK_OUT_SOCKET, TASKS, pipeOrder, rr>>
    /\ UNCHANGED <<stask, sfrom, scommand>>
    /\ UNCHANGED <<mainVars, clientVars, workerVars, obsVars>>

\* _SinkerThread.run, lines 195-196: _TASKS[task.id] = task, then the release
SinkerWrite ==
    /\ spc = "crit"
    /\ hashable(stask.id)
    /\ TASKS' = [TASKS EXCEPT ![stask.id] = stask]
    /\ writes' = [writes EXCEPT ![stask.id] = Inc(@)]
    /\ GLOBAL_TASK_LOCK' = Free
    /\ spc' = "ack"
    /\ UNCHANGED <<WORKING_THREADS, TASK_OUT_SOCKET, pipeOrder, rr>>
    /\ UNCHANGED <<stask, sfrom, scommand>>
    /\ UNCHANGED <<sent, accepted, invoked, outcome, unacked>>
    /\ UNCHANGED <<mainVars, clientVars, workerVars>>

\* a sinker that goes back to its poll without the acknowledgement
SinkerAckLost ==
    /\ spc = "ack"
    /\ stask' = NoTask
    /\ sfrom' = 0
    /\ spc' = "poll"
    /\ UNCHANGED <<scommand, workerVars>>
    /\ UNCHANGED <<mainVars, globVars, clientVars, obsVars>>

\* _SinkerThread.run, line 197: result_in.send(b''), the acknowledgement
SinkerAck ==
    /\ spc = "ack"
    /\ result_out' = [result_out EXCEPT ![sfrom] = "rep"]
    /\ stask' = NoTask
    /\ sfrom' = 0
    /\ spc' = "poll"
    /\ UNCHANGED <<scommand, wpc, wtask, task_in, wcommand, worker_ack>>
    /\ UNCHANGED <<mainVars, globVars, clientVars, obsVars>>

\* ----------------------------------------------------------- specification
MainNext ==
    \/ \E n \in 0..MaxWorkers : Start(n)
    \/ \E w \in AllWorkers : SyncWorkers(w)
    \/ CreateTaskOut
    \/ BindTaskOut
    \/ StartError
    \/ Stop
    \/ StopSignal
    \/ StopJoin

Callers == DOMAIN cpc

AssignNext ==
    \/ \E c \in Callers, id \in TaskIds, cmd \in Commands, st \in SubmitStatuses :
          AssignTask(c, Task(id, cmd, st))
    \/ \E c \in Callers : AssignAcquire(c)
    \/ \E c \in Callers : AssignInsert(c)
    \/ \E c \in Callers : AssignSend(c)
    \/ \E c \in Callers : AssignReturn(c)

HaveNext ==
    \/ \E c \in Callers : HaveAcquire(c)
    \/ \E c \in Callers : HaveScan(c)
    \/ \E c \in Callers : HaveReturn(c)

ClientNext == AssignNext \/ HaveNext

\* the submissions of main(), line 324: Task(task_id, {}), one command and
\* the default status
DefaultCommand == "a"

DriverAssignNext ==
    \/ \E c \in Callers, id \in TaskIds : AssignTask(c, Task(id, DefaultCommand, START))
    \/ \E c \in Callers : AssignAcquire(c)
    \/ \E c \in Callers : AssignInsert(c)
    \/ \E c \in Callers : AssignSend(c)
    \/ \E c \in Callers : AssignReturn(c)

WorkerNext ==
    \/ \E w \in AllWorkers : WorkerReady(w)
    \/ \E w \in AllWorkers : WorkerRelease(w)
    \/ \E w \in AllWorkers : WorkerStop(w)
    \/ \E w \in AllWorkers : WorkerRecv(w)
    \/ \E w \in AllWorkers, ret \in BOOLEAN : WorkerResult(w, ret)
    \/ \E w \in AllWorkers : WorkerAck(w)

SinkerNext ==
    \/ SinkerBind
    \/ SinkerStop
    \/ \E w \in AllWorkers : SinkerRecv(w)
    \/ SinkerAcquire
    \/ SinkerWrite
    \/ SinkerAck

Next == MainNext \/ ClientNext \/ WorkerNext \/ SinkerNext

Spec == Init /\ [][Next]_vars

\* The same threads with the submissions of main()
DriverNext == MainNext \/ DriverAssignNext \/ HaveNext \/ WorkerNext \/ SinkerNext

DriverSpec == Init /\ [][DriverNext]_vars

\* A second thread calls assign_task, with the submissions of main(), at any
\* time: before start(), while start() or stop() is under way, and after
EarlyAssignNext ==
    \/ \E c \in Callers, id \in TaskIds : AssignCheck(c, Task(id, DefaultCommand, START))
    \/ \E c \in Callers : AssignAcquire(c)
    \/ \E c \in Callers : AssignInsert(c)
    \/ \E c \in Callers : AssignSend(c)
    \/ \E c \in Callers : AssignReturn(c)

EarlyNext == MainNext \/ EarlyAssignNext \/ WorkerNext \/ SinkerNext

EarlySpec == Init /\ [][EarlyNext]_vars

\* Two caller threads in assign_task at once (each send_json taken as one
\* step), on a pool of one worker
ConcCallers == 1..NumCallers

ConcInit == InitWith(ConcCallers)

ConcStartNext ==
    \/ Start(1)
    \/ \E w \in AllWorkers : SyncWorkers(w)
    \/ CreateTaskOut
    \/ BindTaskOut

RunWorkerNext ==
    \/ \E w \in AllWorkers : WorkerReady(w)
    \/ \E w \in AllWorkers : WorkerRelease(w)
    \/ \E w \in AllWorkers : WorkerRecv(w)
    \/ \E w \in AllWorkers, ret \in BOOLEAN : WorkerResult(w, ret)
    \/ \E w \in AllWorkers : WorkerAck(w)

RunSinkerNext ==
    \/ SinkerBind
    \/ \E w \in AllWorkers : SinkerRecv(w)
    \/ SinkerAcquire
    \/ SinkerWrite
    \/ SinkerAck

ConcNext == ConcStartNext \/ DriverAssignNext \/ RunWorkerNext \/ RunSinkerNext

ConcSpec == ConcInit /\ [][ConcNext]_vars

\* The run of main(): a pool of one worker or more, a handler that returns
\* True, no stop(); every thread is scheduled again and again, a call under
\* way completes, and the sinker gets the lock when it is free again and again
LiveStartNext ==
    \/ \E n \in 1..MaxWorkers : Start(n)
    \/ \E w \in AllWorkers : SyncWorkers(w)
    \/ CreateTaskOut
    \/ BindTaskOut

LiveWorker(w) ==
    \/ WorkerReady(w)
    \/ WorkerRelease(w)
    \/ WorkerRecv(w)
    \/ WorkerResult(w, TRUE)
    \/ WorkerAck(w)

LiveWorkerNext == \E w \in AllWorkers : LiveWorker(w)

LiveNext ==
    LiveStartNext \/ DriverAssignNext \/ HaveNext \/ LiveWorkerNext \/ RunSinkerNext

LiveCallerStep(c) ==
    \/ AssignAcquire(c)
    \/ AssignInsert(c)
    \/ AssignSend(c)
    \/ AssignReturn(c)
    \/ HaveScan(c)
    \/ HaveReturn(c)

LiveSinkerStep ==
    \/ SinkerBind
    \/ \E w \in AllWorkers : SinkerRecv(w)
    \/ SinkerWrite
    \/ SinkerAck

LiveFairness ==
    /\ WF_vars(LiveStartNext)
    /\ \A c \in Clients : WF_vars(LiveCallerStep(c))
    /\ \A w \in AllWorkers : WF_vars(LiveWorker(w))
    /\ WF_vars(LiveSinkerStep)
    /\ SF_vars(SinkerAcquire)

LiveSpec == Init /\ [][LiveNext]_vars /\ LiveFairness

\* Submissions of every status, the reserved one included, on a pool of one
\* worker, polled with have_all_tasks_done(); no stop()
StatusAssignNext ==
    \/ \E c \in Callers, id \in TaskIds, st \in Statuses :
          AssignTask(c, Task(id, DefaultCommand, st))
    \/ \E c \in Callers : AssignAcquire(c)
    \/ \E c \in Callers : AssignInsert(c)
    \/ \E c \in Callers : AssignSend(c)
    \/ \E c \in Callers : AssignReturn(c)

StatusNext ==
    ConcStartNext \/ StatusAssignNext \/ HaveNext \/ RunWorkerNext \/ RunSinkerNext

StatusSpec == Init /\ [][StatusNext]_vars

\* A handler that returns True or False or raises, on submissions of every
\* status a caller may use
RaiseAssignNext ==
    \/ \E c \in Callers, id \in TaskIds, st \in SubmitStatuses :
          AssignTask(c, Task(id, DefaultCommand, st))
    \/ \E c \in Callers : AssignAcquire(c)
    \/ \E c \in Callers : AssignInsert(c)
    \/ \E c \in Callers : AssignSend(c)
    \/ \E c \in Callers : AssignReturn(c)

RaiseNext ==
    \/ MainNext
    \/ RaiseAssignNext
    \/ WorkerNext
    \/ \E w \in AllWorkers : WorkerRaise(w)
    \/ SinkerNext

RaiseSpec == Init /\ [][RaiseNext]_vars

\* Submissions whose id is a number or a tuple, on a pool of one worker
KeyAssignNext ==
    \/ \E c \in Callers, id \in Keys : AssignTask(c, Task(id, DefaultCommand, START))
    \/ \E c \in Callers : AssignAcquire(c)
    \/ \E c \in Callers : AssignInsert(c)
    \/ \E c \in Callers : AssignSend(c)
    \/ \E c \in Callers : AssignReturn(c)

KeyNext ==
    \/ ConcStartNext
    \/ KeyAssignNext
    \/ HaveNext
    \/ RunWorkerNext
    \/ RunSinkerNext
    \/ SinkerRaise

KeySpec == Init /\ [][KeyNext]_vars

\* The run of main() with its reads of tasks()
TasksNext ==
    \/ \E c \in Callers : TasksRead(c)
    \/ \E c \in Callers : TasksReturn(c)

SnapshotNext == DriverNext \/ TasksNext

SnapshotSpec == Init /\ [][SnapshotNext]_vars

\* The run of main() with its stop(): start() succeeds on a pool of one
\* worker or more, every handler invocation returns, True or False; every
\* thread is scheduled again and again, a call under way goes on, and the
\* sinker gets the lock when it is free again and again
StopCallNext ==
    \/ Stop
    \/ StopSignal
    \/ StopJoin

StopLiveNext ==
    LiveStartNext \/ StopCallNext \/ DriverAssignNext \/ HaveNext \/ WorkerNext \/ SinkerNext

StopMainStep ==
    \/ LiveStartNext
    \/ StopSignal
    \/ StopJoin

StopWorkerStep(w) ==
    \/ WorkerReady(w)
    \/ WorkerRelease(w)
    \/ WorkerStop(w)
    \/ WorkerRecv(w)
    \/ \E ret \in BOOLEAN : WorkerResult(w, ret)
    \/ WorkerAck(w)

StopSinkerStep ==
    \/ LiveSinkerStep
    \/ SinkerStop

StopLiveFairness ==
    /\ WF_vars(StopMainStep)
    /\ \A c \in Clients : WF_vars(LiveCallerStep(c))
    /\ \A w \in AllWorkers : WF_vars(StopWorkerStep(w))
    /\ WF_vars(StopSinkerStep)
    /\ SF_vars(SinkerAcquire)

StopLiveSpec == Init /\ [][StopLiveNext]_vars /\ StopLiveFairness

\* ------------------------------------------------------------------ claims
Released(w) == worker_ack[w] \in {"rep", "done"}
Dispatched == \E i \in TaskIds : sent[i] > 0

\* C1, as amended: a worker takes a message off the distribution channel only
\* after it has sent its readiness signal and received its release; the PUSH
\* socket exists only after the coordinator has answered the readiness signal
\* of every one of the N workers; hence while a task is dispatched no worker
\* is still in Created, and a worker still in AwaitingRelease has its release
\* already sent to it.
C1_StartupBarrier ==
    /\ [](TASK_OUT_SOCKET # "none" =>
            /\ num_active_workers = num_workers
            /\ \A w \in Workers : Released(w))
    /\ [](Dispatched =>
            /\ TASK_OUT_SOCKET = "bound"
            /\ \A w \in Workers : wpc[w] # "created"
            /\ \A w \in Workers : wpc[w] = "awaiting" => worker_ack[w] = "rep")
    /\ [][\A w \in AllWorkers :
            Len(task_in'[w]) < Len(task_in[w]) => worker_ack[w] = "done"]_vars

\* C1 witness: one worker works on a task while another worker is still
\* blocked in the receive of its release.
C1_Witness ==
    \E w, v \in Workers :
        /\ wpc[w] = "work"
        /\ worker_ack[w] = "done"
        /\ wpc[v] = "awaiting"

\* C1 as stated: no task is dispatched while a worker is still in Created or
\* AwaitingRelease.
C1_Original ==
    Dispatched => \A w \in Workers : wpc[w] \notin {"created", "awaiting"}

\* C2: when start has returned, the coordinator has received the readiness
\* signal of exactly num_workers workers and has sent exactly num_workers
\* releases, one to each worker.
C2_SyncCount ==
    startReturned =>
        /\ num_active_workers = num_workers
        /\ Cardinality({w \in AllWorkers : Released(w)}) = num_workers
        /\ \A w \in Workers : Released(w)

\* C2 witness: start has returned, without an error, for two workers or more.
C2_Witness ==
    /\ startReturned
    /\ ~stopReturned
    /\ TASK_OUT_SOCKET = "bound"
    /\ num_workers >= 2

\* C3: of the assign_task calls that carry one id, made one after another
\* or by two threads at once, only the first inserts and sends: at most one
\* message per id is ever sent; a call that finds the id in the registry
\* changes neither the registry nor the channel and returns; and assign_task
\* never changes an entry that exists.
C3_Uniqueness ==
    /\ [](\A i \in TaskIds : sent[i] <= 1)
    /\ [][\A c \in Callers :
            (cpc[c] = "crit" /\ cpc'[c] # "crit" /\ TASKS[ctask[c].id] # NoTask)
            => (cpc'[c] = "dup" /\ TASKS' = TASKS /\ task_in' = task_in /\ sent' = sent)]_vars
    /\ [][\A c \in Callers :
            (cpc[c] = "dup" /\ cpc'[c] # "dup")
            => (cpc'[c] = "idle" /\ TASKS' = TASKS /\ task_in' = task_in /\ sent' = sent)]_vars
    /\ [][\A i \in TaskIds :
            (TASKS[i] # NoTask /\ TASKS'[i] # TASKS[i]) => cpc' = cpc]_vars

\* C3 witness: a second call with an id finds it in the registry, where its
\* status is already DONE, while another caller is about to send a task.
C3_Witness ==
    \E c, d \in Callers :
        /\ cpc[c] = "crit"
        /\ TASKS[ctask[c].id] # NoTask
        /\ is_done(TASKS[ctask[c].id])
        /\ writes[ctask[c].id] = 1
        /\ cpc[d] = "send"

\* C4 as stated: an entry that is DONE stays DONE.
C4_DoneStaysDone ==
    [][\A i \in TaskIds :
        (TASKS[i] # NoTask /\ is_done(TASKS[i])) => is_done(TASKS'[i])]_vars

\* C5: a worker holds at most one task it has received and whose result is
\* not acknowledged, and takes nothing off the distribution channel between
\* the send of a result and the receipt of its acknowledgement.
C5_OneInFlight ==
    /\ [](\A w \in AllWorkers : Cardinality(unacked[w]) <= 1)
    /\ [][\A w \in AllWorkers :
            result_out[w] # "none" => ~(Len(task_in'[w]) < Len(task_in[w]))]_vars

\* C5 witness: a worker waits for an acknowledgement while the next task is in
\* its queue.
C5_Witness ==
    \E w \in Workers :
        /\ wpc[w] = "waitack"
        /\ unacked[w] # {}
        /\ task_in[w] # <<>>

Copies(i, q) == Cardinality({k \in 1..Len(q) : q[k].id = i})

RECURSIVE Queued(_, _)
Queued(i, w) == IF w = 0 THEN 0 ELSE Copies(i, task_in[w]) + Queued(i, w - 1)

\* C6: a message sent by assign_task is in one queue or was taken by one
\* worker: per id, the copies in the queues plus the handler invocations never
\* exceed the messages sent, and the handler is invoked at most once.
C6_SingleConsumer ==
    \A i \in TaskIds :
        /\ invoked[i] <= 1
        /\ Queued(i, MaxWorkers) + invoked[i] <= sent[i]

\* C6 witness: of two workers one works on a task, the other polls an empty
\* queue.
C6_Witness ==
    \E w, v \in Workers, i \in TaskIds :
        /\ w # v
        /\ wpc[w] = "work"
        /\ wtask[w].id = i
        /\ invoked[i] = 1
        /\ wpc[v] = "poll"
        /\ task_in[v] = <<>>

OutcomeStatus(i) == IF outcome[i] = "true" THEN DONE ELSE START

\* C7 as stated: a task whose handler has returned is written by the sinker
\* exactly once: never twice; once written, the entry has the submitted id and
\* command and the worker's outcome; and when the sinker has ended the
\* registry holds that entry.
C7_ExactlyOnce ==
    \A i \in TaskIds :
        outcome[i] # "none" =>
            /\ writes[i] <= 1
            /\ writes[i] = 1 => TASKS[i] = Task(i, accepted[i], OutcomeStatus(i))
            /\ spc = "stopped" => TASKS[i] = Task(i, accepted[i], OutcomeStatus(i))

\* C8: once a stop() has returned the sinker and every worker have ended, and
\* from then on no handler is invoked, no handler returns and the sinker
\* writes nothing.
C8_GracefulShutdown ==
    /\ [](stopReturned =>
            /\ spc = "stopped"
            /\ \A w \in Workers : wpc[w] = "stopped")
    /\ [][stopReturned =>
            /\ invoked' = invoked
            /\ outcome' = outcome
            /\ writes' = writes
            /\ \A i \in TaskIds : TASKS[i] # NoTask => TASKS'[i] = TASKS[i]]_vars

\* C8 witness: stop() has returned on a started pool, a task is still queued
\* for a worker and assign_task is called again.
C8_Witness ==
    /\ stopReturned
    /\ TASK_OUT_SOCKET = "bound"
    /\ \E w \in Workers : task_in[w] # <<>>
    /\ \E c \in Callers : cpc[c] = "send"

\* C10 as stated: once the handler has returned False for a task, its entry
\* is pending and have_all_tasks_done() is false.
C10_FalseStaysPending ==
    \A i \in TaskIds :
        outcome[i] = "false" =>
            /\ TASKS[i].status = START
            /\ ~have_all_tasks_done(TASKS)

\* C9: with one worker or more, a handler that always returns True and no
\* stop(), under fair scheduling there is a point from which on
\* have_all_tasks_done() is true and the registry holds exactly the accepted
\* ids, each with its own id and the status DONE.
AllSubmittedDone ==
    /\ have_all_tasks_done(TASKS)
    /\ \A i \in TaskIds :
        /\ TASKS[i] # NoTask <=> accepted[i] # ""
        /\ TASKS[i] # NoTask => (TASKS[i].id = i /\ TASKS[i].status = DONE)
    /\ \A i \in TaskIds : accepted[i] # "" => writes[i] = 1

C9_CompletionLiveness == <>[]AllSubmittedDone

\* C9 witness: every id was submitted, on two workers, and all are done.
C9_Witness ==
    /\ num_workers = 2
    /\ \A i \in TaskIds : accepted[i] # "" /\ writes[i] = 1
    /\ AllSubmittedDone

\* start() has been called and _sync_workers has counted every worker
BarrierComplete == mainPc # "init" /\ num_active_workers = num_workers

\* C11: before start has completed its barrier there is no distribution
\* socket; an assign_task call made then takes the error path, and from the
\* call to its return the registry, the workers' queues and the count of sent
\* messages stay as they are; an id that is absent from the registry is
\* accepted by the call that finds it absent, whatever was dropped before.
C11_PoolNotStarted ==
    /\ [](~BarrierComplete => TASK_OUT_SOCKET = "none")
    /\ [][\A c \in Callers :
            (cpc[c] = "idle" /\ cpc'[c] \notin {"idle", "hcrit"} /\ ~BarrierComplete)
            => (cpc'[c] = "err" /\ TASKS' = TASKS /\ task_in' = task_in /\ sent' = sent)]_vars
    /\ [][\A c \in Callers :
            (cpc[c] = "err" /\ cpc'[c] # "err")
            => (cpc'[c] = "idle" /\ TASKS' = TASKS /\ task_in' = task_in /\ sent' = sent)]_vars
    /\ [][\A c \in Callers :
            (cpc[c] = "crit" /\ cpc'[c] # "crit" /\ TASKS[ctask[c].id] = NoTask)
            => (cpc'[c] = "send" /\ TASKS'[ctask[c].id] = ctask[c])]_vars

\* C11 witness: a call made while start() waits for a worker in its barrier
\* is on the error path, its id absent from the registry.
C11_Witness ==
    \E c \in Callers :
        /\ cpc[c] = "err"
        /\ mainPc = "sync"
        /\ num_active_workers < num_workers
        /\ ctask[c] # NoTask
        /\ TASKS[ctask[c].id] = NoTask

\* C12: have_all_tasks_done() holds the lock from its acquire to the end of
\* its scan, and the registry does not change meanwhile; the value it returns
\* is true exactly when every entry of the registry has the status DONE: true
\* for the empty registry, false when an entry is pending or failed.
C12_AllDone ==
    /\ [](\A c \in Callers : cpc[c] = "hcrit" => GLOBAL_TASK_LOCK = c)
    /\ [][\A c \in Callers : cpc[c] = "hcrit" =>
            /\ TASKS' = TASKS
            /\ cpc'[c] \in {"hcrit", "hret"}]_vars
    /\ [][\A c \in Callers :
            (cpc[c] = "hcrit" /\ cpc'[c] = "hret") =>
                /\ all_TASKS_done'[c] <=>
                        (\A i \in Keys : TASKS[i] # NoTask => TASKS[i].status = DONE)
                /\ (\A i \in Keys : TASKS[i] = NoTask) => all_TASKS_done'[c]
                /\ (\E i \in Keys : TASKS[i].status \in {START, FAILED})
                        => ~all_TASKS_done'[c]]_vars
    /\ [][\A c \in Callers :
            cpc[c] = "hret" => all_TASKS_done'[c] \in {all_TASKS_done[c], TRUE}]_vars

\* C12 witness: the scan has found a registry with a failed entry and every
\* other entry done, and is about to return False.
C12_Witness ==
    \E c \in Callers, i \in TaskIds :
        /\ cpc[c] = "hret"
        /\ ~all_TASKS_done[c]
        /\ TASKS[i].status = FAILED
        /\ \A j \in TaskIds \ {i} : TASKS[j] # NoTask /\ is_done(TASKS[j])

\* C13 as stated: a worker whose handler raises ends without a result for the
\* task, and the step changes nothing of the sinker and of the other workers;
\* the sinker never writes the task; and its entry is pending ever after.
C13_HandlerThrows ==
    /\ [][\A w \in AllWorkers :
            (wpc[w] = "work" /\ outcome'[wtask[w].id] = "raised") =>
                /\ wpc'[w] = "stopped"
                /\ result_out' = result_out
                /\ \A v \in AllWorkers \ {w} : wpc'[v] = wpc[v]
                /\ spc' = spc
                /\ mainPc' = mainPc]_vars
    /\ [](\A i \in TaskIds : outcome[i] = "raised" => writes[i] = 0)
    /\ [](\A i \in TaskIds : outcome[i] = "raised" => TASKS[i].status = START)

\* C14 as stated: the entry that assign_task creates for an accepted task has
\* the status START right after the insert, whatever status the caller's Task
\* carried.
C14_InsertAsPending ==
    [][\A c \in Callers :
        (cpc[c] = "crit" /\ cpc'[c] = "send") =>
            TASKS'[ctask[c].id] = Task(ctask[c].id, ctask[c].command, START)]_vars

\* C15 as stated: the lock is held only inside the critical sections, by a
\* caller between its acquire and its release in assign_task or in
\* have_all_tasks_done, by the sinker between its acquire and its release: by
\* no caller that is at a send or has returned, and not by the sinker when it
\* is at a receive or a send or has ended.
C15_LockChannelSeparation ==
    /\ \A c \in Callers : GLOBAL_TASK_LOCK = c => cpc[c] \in {"crit", "hcrit"}
    /\ GLOBAL_TASK_LOCK = SinkerTid => spc = "crit"
    /\ GLOBAL_TASK_LOCK \in {Free, SinkerTid} \cup Callers

\* C16 as stated: whoever reads or writes the registry holds the lock: a
\* caller at the lookup and the insert of assign_task, in the scan of
\* have_all_tasks_done and while it reads the dictionary of tasks(), and the
\* sinker at its write.
C16_RegistrySerialized ==
    /\ \A c \in Callers :
        cpc[c] \in {"crit", "hcrit", "tasks"} => GLOBAL_TASK_LOCK = c
    /\ spc = "crit" => GLOBAL_TASK_LOCK = SinkerTid

\* C17: the sinker sends an acknowledgement only when the registry holds the
\* result it stands for; a worker that has its acknowledgement, and a worker
\* that goes on after it, finds its result in the registry, written once; and
\* the entry of a task whose worker has gone on stays the result that worker
\* sent.
C17_WriteBeforeAck ==
    /\ [](spc = "ack" => TASKS[stask.id] = stask)
    /\ [](\A w \in AllWorkers : result_out[w] = "rep" => TASKS[wtask[w].id] = wtask[w])
    /\ [][\A w \in AllWorkers :
            (wpc[w] = "waitack" /\ wpc'[w] # "waitack") =>
                /\ TASKS[wtask[w].id] = wtask[w]
                /\ writes[wtask[w].id] = 1]_vars
    /\ [](\A i \in TaskIds :
            (outcome[i] # "none" /\ \A w \in AllWorkers : i \notin unacked[w])
            => TASKS[i] = Task(i, accepted[i], OutcomeStatus(i)))

\* C17 witness: a worker has gone on after the acknowledgement of a task that
\* is done, and waits for the acknowledgement of its next task, which the
\* sinker is about to send.
C17_Witness ==
    \E w \in Workers, i \in TaskIds :
        /\ outcome[i] = "true"
        /\ i \notin unacked[w]
        /\ is_done(TASKS[i])
        /\ wpc[w] = "waitack"
        /\ spc = "ack"
        /\ sfrom = w

Signalled(t) == IF t = SinkerTid THEN scommand ELSE wcommand[t]

\* C18: _WORKING_THREADS lists the sinker first and then the workers in the
\* order of their creation; stop() goes through it one place at a time from
\* the first; the step that sends a stop signal sends it to the unit at
\* stop()'s place only, when every unit before it has ended; and at no time
\* are two units signalled and still running.
C18_TeardownOrder ==
    /\ [](\A k \in 1..Len(WORKING_THREADS) : WORKING_THREADS[k] = k - 1)
    /\ [](mainPc \in {"stopSig", "stopJoin"} =>
            /\ stopIdx \in 1..Len(WORKING_THREADS)
            /\ \A k \in 1..(stopIdx - 1) : Terminated(WORKING_THREADS[k]))
    /\ [][(mainPc = "stopSig" /\ mainPc' # "stopSig") =>
            /\ mainPc' = "stopJoin"
            /\ stopIdx' = stopIdx
            /\ Signalled(WORKING_THREADS[stopIdx])'
            /\ \A k \in 1..Len(WORKING_THREADS) :
                  k # stopIdx =>
                      Signalled(WORKING_THREADS[k])' = Signalled(WORKING_THREADS[k])]_vars
    /\ [][(mainPc = "stopJoin" /\ mainPc' # "stopJoin") =>
            /\ Terminated(WORKING_THREADS[stopIdx])
            /\ IF stopIdx < Len(WORKING_THREADS)
               THEN mainPc' = "stopSig" /\ stopIdx' = stopIdx + 1
               ELSE mainPc' = "started"]_vars
    /\ [][(scommand' # scommand \/ wcommand' # wcommand) => mainPc = "stopSig"]_vars
    /\ [](Cardinality({k \in 1..Len(WORKING_THREADS) :
                          /\ Signalled(WORKING_THREADS[k])
                          /\ ~Terminated(WORKING_THREADS[k])}) <= 1)

\* C18 witness: of two workers the first is signalled and still works on a
\* task, the sinker has ended, the second worker is not signalled and runs.
C18_Witness ==
    /\ num_workers = 2
    /\ mainPc = "stopJoin"
    /\ stopIdx = 2
    /\ spc = "stopped"
    /\ wcommand[1]
    /\ wpc[1] = "work"
    /\ ~wcommand[2]
    /\ wpc[2] = "poll"

\* C19: a worker that takes a message of status STOP off the distribution
\* channel ends in that step, without a handler invocation and without a
\* send on result_out; no worker works on, and the sinker never holds, a task
\* of status STOP; a task submitted with status STOP is never handled and
\* never written by the sinker.
C19_StopSentinel ==
    /\ [][\A w \in AllWorkers :
            (/\ task_in[w] # <<>>
             /\ Len(task_in'[w]) < Len(task_in[w])
             /\ Head(task_in[w]).status = STOP) =>
                /\ wpc'[w] = "stopped"
                /\ invoked' = invoked
                /\ outcome' = outcome
                /\ wtask' = wtask
                /\ result_out' = result_out]_vars
    /\ [](\A w \in AllWorkers : wtask[w].status # STOP)
    /\ [](stask.status # STOP)
    /\ [](\A i \in TaskIds :
            TASKS[i].status = STOP => (invoked[i] = 0 /\ outcome[i] = "none" /\ writes[i] = 0))

\* C19 witness: the worker has ended at a message of status STOP after it
\* had done a task, no stop signal was sent, and a later task is queued.
C19_Witness ==
    \E w \in Workers, i, j \in TaskIds :
        /\ wpc[w] = "stopped"
        /\ ~wcommand[w]
        /\ TASKS[i].status = STOP
        /\ sent[i] = 1
        /\ Queued(i, MaxWorkers) = 0
        /\ writes[j] = 1
        /\ is_done(TASKS[j])

\* C20 as stated: after a start() that succeeded, with handlers that return,
\* under fair scheduling every stop() that is called returns.
C20_StopTerminates ==
    (mainPc \in {"stopSig", "stopJoin"}) ~> (mainPc = "started" /\ stopReturned)

====
